---- MODULE Spec2Model ----
(***************************************************************************)
(* RPG.SE Chat Fudge Dice (src/src/index.user.js): the debounced scan that *)
(* annotates six-sided dice, the user configuration with its persistence   *)
(* slot, and the presentation state derived from the configuration.        *)
(***************************************************************************)
EXTENDS Integers, Sequences, FiniteSets

(* ------------------------------ bounds -------------------------------- *)

\* dice the host page ever renders
MaxDice == 2
\* dot markers of the fullest die the host renders
MaxPips == 6
\* the clock stops here
MaxTime == 200
\* the longest the clock runs between two events
TickStep == 25
\* timers ever created by setTimeout
MaxTimers == 4
\* scan passes that throw
MaxFaults == 1
\* largest pip count handed to FudgeUtil directly
MaxNum == 12

(* --------------------------- JavaScript values ------------------------ *)

Digits == <<"0", "1", "2", "3", "4", "5", "6", "7", "8", "9">>

\* Number.prototype.toString of an integer
RECURSIVE NumToString(_)
NumToString(n) ==
  IF n < 0 THEN "-" \o NumToString(-n)
  ELSE IF n < 10 THEN Digits[n + 1]
  ELSE NumToString(n \div 10) \o Digits[(n % 10) + 1]

\* obj.key of a frozen object: undefined when the object has no such key
Prop(obj, key) == IF key \in DOMAIN obj THEN obj[key] ELSE "undefined"

\* String.prototype.includes for a one-character needle; a text is a
\* sequence of characters
Includes(text, ch) == \E i \in DOMAIN text : text[i] = ch

\* Array.prototype.includes
ArrayIncludes(arr, x) == \E i \in DOMAIN arr : arr[i] = x

\* Array.prototype.filter(x => x !== drop)
RECURSIVE FilterOut(_, _)
FilterOut(arr, drop) ==
  IF arr = <<>> THEN <<>>
  ELSE IF Head(arr) # drop THEN <<Head(arr)>> \o FilterOut(Tail(arr), drop)
  ELSE FilterOut(Tail(arr), drop)

(* ------------------------------ FudgeUtil ----------------------------- *)

FudgeScore == [Minus |-> -1, Zero |-> 0, Plus |-> 1]

\* d6toFudge with the upper threshold off by one
d6toFudgeOffByOne(num) ==
  IF num > 5 THEN FudgeScore.Plus
  ELSE IF num <= 2 THEN FudgeScore.Minus
  ELSE FudgeScore.Zero

d6toFudge(num) ==
  IF num >= 5 THEN FudgeScore.Plus
  ELSE IF num <= 2 THEN FudgeScore.Minus
  ELSE FudgeScore.Zero

displayScore(score) ==
  IF score = FudgeScore.Minus THEN "&minus;"
  ELSE IF score = FudgeScore.Plus THEN "&plus;"
  ELSE ""

(* ------------------------ shared HTML/CSS names ----------------------- *)

HtmlClass ==
  [FudgeRoot |-> "fudge-running", FudgeOn |-> "fudge--on",
   FudgeColorsOn |-> "fudge-colors--on", FudgeDie |-> "fudge-die",
   FudgeDieFace |-> "fudge-die-face",
   FudgeDieFaceSymbol |-> "fudge-die-face-symbol"]

HtmlAttribute ==
  [DataD6Score |-> "data-d6-score", DataFudgeScore |-> "data-fudge-score"]

CssAttribute ==
  [FudgeDiceMinusColor |-> "--fudge-dice-minus-color",
   FudgeDicePlusColor |-> "--fudge-dice-plus-color"]

(* ------------------------------- state -------------------------------- *)

VARIABLES
  pc,             \* where Main.start stands: "load", "running", "inactive", "aborted"
  pathname,       \* window.location.pathname, split at "/"
  onRpgSe,        \* the footer logo links to rpg.stackexchange.com
  elementIds,     \* ids of the container elements the host page has
  localStorage,   \* the text in the slot "fudgeConfig"
  userConfig,     \* useColors, plusColor, minusColor, rooms
  doc,            \* the six-sided dice of the document, in document order
  rootClasses,    \* class list of the chat element
  css,            \* content of the style element: the two colors it embeds
  fudgeOn,        \* ToggleComponent "Use fudge dice here"
  colorsOn,       \* ToggleComponent "Color the fudge dice"
  plusColorInput, \* ColorPickerComponent "Plus color"
  minusColorInput,\* ColorPickerComponent "Minus color"
  immediate,      \* third argument of debounce
  timeout,        \* closure variable of debounce
  timers,         \* timers the event loop holds: id and due time
  nextTimerId,    \* id the next setTimeout returns
  observing,      \* the MutationObserver is connected
  now,            \* milliseconds since the page loaded
  events,         \* log: each call of the debounced function and each
                  \* execution of scan(), with its time
  errors,         \* what was reported: Log.error calls and uncaught exceptions
  probe           \* a direct call of FudgeUtil: arguments and results

envVars == <<pathname, onRpgSe, elementIds, immediate>>
configVars == <<localStorage, userConfig>>
uiVars == <<fudgeOn, colorsOn, plusColorInput, minusColorInput>>
cssVars == <<rootClasses, css>>
schedVars == <<timeout, timers, nextTimerId, observing, events>>
vars == <<pc, envVars, configVars, uiVars, cssVars, schedVars, doc, now,
          errors, probe>>

(* ------------------------------ ChatUtil ------------------------------ *)

\* pathname.includes('/' + word + '/'): a part between two slashes
PathIncludes(parts, word) ==
  \E i \in 2..(Len(parts) - 1) : parts[i] = word

\* pathname.split('/', limit)
Split(parts, limit) == SubSeq(parts, 1, IF Len(parts) < limit THEN Len(parts) ELSE limit)

inTranscript == PathIncludes(pathname, "transcript")

inConversation ==
  LET pathParts == Split(pathname, 5)
  IN  Len(pathParts) >= 5 /\ pathParts[4] = "conversation"

inLiveRoom == PathIncludes(pathname, "rooms") /\ ~inConversation

isLive == inLiveRoom

roomId ==
  LET pathParts == Split(pathname, 3)
  IN  IF Len(pathParts) >= 3 THEN pathParts[3] ELSE "undefined"

getElementById(id) == IF id \in elementIds THEN id ELSE "null"

getChatElement ==
  IF inTranscript THEN getElementById("transcript")
  ELSE IF inConversation THEN getElementById("conversation")
  ELSE getElementById("chat")

(* ------------------------------ UserConfig ---------------------------- *)

\* new UserConfig()
DefaultConfig ==
  [useColors |-> FALSE, plusColor |-> "#008800", minusColor |-> "#CC0000",
   rooms |-> <<"8403", "11">>]

ConfigKeys == <<"useColors", "plusColor", "minusColor", "rooms">>

\* A JSON text is the sequence of its members, each a key and the literal of
\* a value: true / false, a quoted string, an array of quoted strings, null.
JsonBool(b) == [type |-> "bool", lit |-> IF b THEN "true" ELSE "false"]
JsonString(str) == [type |-> "string", chars |-> str]
JsonArray(arr) == [type |-> "array", items |-> [i \in DOMAIN arr |-> JsonString(arr[i])]]
JsonNull == [type |-> "null"]

JsonText(members) == [kind |-> "object", members |-> members]
\* getItem of a slot never written
NoItem == [kind |-> "none"]
EmptyText == [kind |-> "empty"]
\* the text 'null'
NullText == [kind |-> "null"]
\* a text that is no JSON
BrokenText == [kind |-> "broken"]

\* !localStorage.getItem(store): null and the empty string are falsy
Falsy(item) == item.kind \in {"none", "empty"}

\* stringify that leaves the room list out
stringifyNoRooms(config) ==
  JsonText(<<[key |-> "useColors", val |-> JsonBool(config.useColors)],
             [key |-> "plusColor", val |-> JsonString(config.plusColor)],
             [key |-> "minusColor", val |-> JsonString(config.minusColor)]>>)

\* JSON.stringify(config)
stringify(config) ==
  JsonText(<<[key |-> "useColors", val |-> JsonBool(config.useColors)],
             [key |-> "plusColor", val |-> JsonString(config.plusColor)],
             [key |-> "minusColor", val |-> JsonString(config.minusColor)],
             [key |-> "rooms", val |-> JsonArray(config.rooms)]>>)

\* JSON.parse throws on a text that is no JSON (and on null, the item of an
\* empty slot, which it reads as the text 'null' and load() then dereferences)
ParseThrows(item) == item.kind \in {"empty", "broken"}
LoadThrows(item) == ParseThrows(item) \/ item.kind \in {"none", "null"}

\* the value of a JSON literal
JsonValue(val) ==
  CASE val.type = "bool" -> (val.lit = "true")
    [] val.type = "string" -> val.chars
    [] val.type = "array" -> [i \in DOMAIN val.items |-> val.items[i].chars]

\* config.key ?? fallback, for the object JSON.parse returns: the last member
\* with that key wins; a missing member is undefined, and null is nullish too
Coalesce(members, key, fallback) ==
  LET at == {i \in DOMAIN members : members[i].key = key}
      last == CHOOSE i \in at : \A j \in at : j <= i
  IN  IF at = {} THEN fallback
      ELSE IF members[last].val.type = "null" THEN fallback
      ELSE JsonValue(members[last].val)

\* UserConfig.save: the new content of the slot
save(config) == stringify(config)

\* loadAllOrNothing: a record with a field missing is not read at all
loadAllOrNothing(config, item) ==
  IF \A i \in DOMAIN ConfigKeys :
       \E j \in DOMAIN item.members : item.members[j].key = ConfigKeys[i]
  THEN [useColors |-> Coalesce(item.members, "useColors", config.useColors),
        plusColor |-> Coalesce(item.members, "plusColor", config.plusColor),
        minusColor |-> Coalesce(item.members, "minusColor", config.minusColor),
        rooms |-> Coalesce(item.members, "rooms", config.rooms)]
  ELSE config

\* UserConfig.load: the new fields, for a slot content that parses
load(config, item) ==
  [useColors |-> Coalesce(item.members, "useColors", config.useColors),
   plusColor |-> Coalesce(item.members, "plusColor", config.plusColor),
   minusColor |-> Coalesce(item.members, "minusColor", config.minusColor),
   rooms |-> Coalesce(item.members, "rooms", config.rooms)]

\* UserConfig.isActiveHere
isActiveHere(config) == ArrayIncludes(config.rooms, roomId)

\* activateRoom without the membership test
activateRoomUnguarded(config) == [config EXCEPT !.rooms = Append(@, roomId)]

\* UserConfig.activateRoom
activateRoom(config) ==
  IF isActiveHere(config) THEN config
  ELSE [config EXCEPT !.rooms = Append(@, roomId)]

\* UserConfig.deactivateRoom
deactivateRoom(config) == [config EXCEPT !.rooms = FilterOut(@, roomId)]

(* ------------------------------ the document -------------------------- *)

\* A die is an element of class six-sided-die: the element it sits under
\* ("chat", "transcript", "conversation", or "sidebar" outside them), whether
\* it has the class fudge-die, the texts of its .dot elements, its
\* attributes, and the fudge-die-face elements appended to it.

Bullet == <<"*">>      \* the text of a dot that shows: one bullet character
BulletChar == "*"

Bullets(n) == [i \in 1..n |-> Bullet]

\* what the host renders: n showing dots, or a die whose dots are damaged
DotLists ==
  {Bullets(0), Bullets(1), <<<<>>, Bullet, <<"x">>, Bullet, Bullet>>, Bullets(MaxPips)}

NewDie(parent, dots) ==
  [parent |-> parent, fudgeDie |-> FALSE, dots |-> dots,
   attrs |-> {}, faces |-> <<>>]

\* element.setAttribute(name, value); attrs holds one pair per name present
setAttribute(attrs, name, value) ==
  {a \in attrs : a.name # name} \cup {[name |-> name, value |-> value]}

\* element.getAttribute(name)
getAttribute(attrs, name) ==
  IF \E a \in attrs : a.name = name
  THEN (CHOOSE a \in attrs : a.name = name).value
  ELSE "null"

\* Array.from(die.querySelectorAll('.dot')).map(...).filter(...).length
CountPips(die) ==
  Cardinality({i \in DOMAIN die.dots : Includes(die.dots[i], BulletChar)})

(* ------------------------------ ChatService.scan ---------------------- *)

\* A pass may throw from any statement of the loop body (or before the loop):
\* a fault names the selected die and how many of the six statements of the
\* body ran before the throw.
NoFault == [die |-> 0, step |-> 0]

\* the statements of the forEach body, in order; `upto` of them run
\* ProcessDie without classList.add(fudge-die)
ProcessDieNoMark(die, upto) ==
  IF die.fudgeDie THEN die
  ELSE
    LET d6score == CountPips(die)
        fudgeScore == d6toFudge(d6score)
        s3 == [die EXCEPT !.attrs =
                 setAttribute(@, Prop(HtmlClass, "DataD6Score"), NumToString(d6score))]
        s4 == [s3 EXCEPT !.attrs =
                 setAttribute(@, HtmlAttribute.DataFudgeScore, NumToString(fudgeScore))]
        symbol == [class |-> HtmlClass.FudgeDieFaceSymbol,
                   innerHTML |-> displayScore(fudgeScore)]
        face == [class |-> HtmlClass.FudgeDieFace,
                 title |-> "Rolled " \o NumToString(d6score), symbol |-> symbol]
    IN  IF upto >= 6 THEN [s4 EXCEPT !.faces = Append(@, face)] ELSE die

\* ProcessDie with the pip count written where the outcome belongs
ProcessDieSwapped(die, upto) ==
  IF die.fudgeDie THEN die
  ELSE
    LET d6score == CountPips(die)
        fudgeScore == d6toFudge(d6score)
        s4 == [die EXCEPT !.fudgeDie = TRUE,
                          !.attrs = setAttribute(@, HtmlAttribute.DataFudgeScore,
                                                 NumToString(d6score))]
        symbol == [class |-> HtmlClass.FudgeDieFaceSymbol,
                   innerHTML |-> displayScore(fudgeScore)]
        face == [class |-> HtmlClass.FudgeDieFace,
                 title |-> "Rolled " \o NumToString(d6score), symbol |-> symbol]
    IN  IF upto >= 6 THEN [s4 EXCEPT !.faces = Append(@, face)] ELSE die

\* ProcessDie with classList.add(fudge-die) moved behind the attribute writes
ProcessDieMarkLate(die, upto) ==
  IF die.fudgeDie THEN die
  ELSE
    LET d6score == CountPips(die)
        fudgeScore == d6toFudge(d6score)
        s3 == IF upto >= 3
              THEN [die EXCEPT !.attrs =
                      setAttribute(@, Prop(HtmlClass, "DataD6Score"), NumToString(d6score))]
              ELSE die
        s4 == IF upto >= 4
              THEN [s3 EXCEPT !.attrs =
                      setAttribute(@, HtmlAttribute.DataFudgeScore, NumToString(fudgeScore))]
              ELSE s3
        s5 == IF upto >= 5 THEN [s4 EXCEPT !.fudgeDie = TRUE] ELSE s4
        symbol == [class |-> HtmlClass.FudgeDieFaceSymbol,
                   innerHTML |-> displayScore(fudgeScore)]
        face == [class |-> HtmlClass.FudgeDieFace,
                 title |-> "Rolled " \o NumToString(d6score), symbol |-> symbol]
    IN  IF upto >= 6 THEN [s5 EXCEPT !.faces = Append(@, face)] ELSE s5

ProcessDie(die, upto) ==
  IF die.fudgeDie THEN die
  ELSE
    LET s1 == IF upto >= 1 THEN [die EXCEPT !.fudgeDie = TRUE] ELSE die
        d6score == CountPips(s1)
        fudgeScore == d6toFudge(d6score)
        fudgeDisplay == displayScore(fudgeScore)
        s3 == IF upto >= 3
              THEN [s1 EXCEPT !.attrs =
                      setAttribute(@, Prop(HtmlClass, "DataD6Score"), NumToString(d6score))]
              ELSE s1
        s4 == IF upto >= 4
              THEN [s3 EXCEPT !.attrs =
                      setAttribute(@, HtmlAttribute.DataFudgeScore, NumToString(fudgeScore))]
              ELSE s3
        symbol == [class |-> HtmlClass.FudgeDieFaceSymbol, innerHTML |-> fudgeDisplay]
        face == [class |-> HtmlClass.FudgeDieFace,
                 title |-> "Rolled " \o NumToString(d6score), symbol |-> symbol]
        s6 == IF upto >= 6 THEN [s4 EXCEPT !.faces = Append(@, face)] ELSE s4
    IN  s6

\* document.querySelectorAll('.six-sided-die:not(.fudge-die)'): positions in
\* the whole document
Select(d) == {i \in DOMAIN d : ~d[i].fudgeDie}

\* how many statements of the body run for the k-th selected die
StepsRun(k, fault) ==
  IF fault = NoFault \/ k < fault.die THEN 6
  ELSE IF k = fault.die THEN fault.step
  ELSE 0

\* the document after scan(), when the pass throws at `fault`
scanDoc(d, fault) ==
  LET dice == Select(d)
      rank(i) == Cardinality({j \in dice : j <= i})
  IN  [i \in DOMAIN d |->
         IF i \in dice THEN ProcessDie(d[i], StepsRun(rank(i), fault)) ELSE d[i]]

\* the faults a pass over d can meet
Faults(d) ==
  {NoFault} \cup {[die |-> 1, step |-> 0]}
  \cup {[die |-> k, step |-> n] : k \in 1..Cardinality(Select(d)), n \in 0..5}

\* AppendedUnder for an observer that every pass notifies
AppendedUnderAlways(before, after, target) == TRUE

\* scan appended an element below `target`: a childList record for an
\* observer of that subtree
AppendedUnder(before, after, target) ==
  \E i \in DOMAIN before :
    before[i].parent = target /\ Len(after[i].faces) > Len(before[i].faces)

(* ------------------------------ debounce ------------------------------ *)

\* the debounce window of ChatService.debouncedScan
Wait == 50

TimeoutUndefined == [tag |-> "undefined"]
TimeoutNull == [tag |-> "null"]
TimerHandle(id) == [tag |-> "timer", id |-> id]

\* !timeout: a timer id is a positive integer
Truthy(t) == t.tag = "timer"

\* What a callback works on: the fields of the state it may change, and
\* `records`, the childList records queued for the MutationObserver.
World ==
  [doc |-> doc, timeout |-> timeout, timers |-> timers,
   nextTimerId |-> nextTimerId, observing |-> observing, records |-> FALSE,
   errors |-> errors, events |-> events]

\* the observed subtree: what getChatElement() returned in startLiveScan
ObservedTarget == getChatElement

\* this.scan() on world w: the result, and whether it threw
scan(w, fault) ==
  LET after == scanDoc(w.doc, fault)
  IN  [w |-> [w EXCEPT !.doc = after,
                       !.events = Append(@, [op |-> "scan", at |-> now]),
                       !.records = @ \/ AppendedUnder(w.doc, after, ObservedTarget)],
       threw |-> fault # NoFault]

\* clearTimeout that cancels nothing
clearTimeoutNothing(pending, t) == pending

clearTimeout(pending, t) ==
  IF t.tag = "timer" THEN {x \in pending : x.id # t.id} ELSE pending

\* debounced that leaves a pending timer as it is: the window is not reset
debouncedNoReset(w, fault) ==
  IF w.timers # {}
  THEN [w |-> [w EXCEPT !.events = Append(@, [op |-> "call", at |-> now])],
        threw |-> FALSE]
  ELSE [w |-> [w EXCEPT !.timers = {[id |-> w.nextTimerId, due |-> now + Wait]},
                        !.timeout = TimerHandle(w.nextTimerId),
                        !.nextTimerId = w.nextTimerId + 1,
                        !.events = Append(@, [op |-> "call", at |-> now])],
        threw |-> FALSE]

\* the function debounce returns, called on world w
debounced(w, fault) ==
  LET cleared == clearTimeout(w.timers, w.timeout)
      id == w.nextTimerId
      w1 == [w EXCEPT !.timers = cleared \cup {[id |-> id, due |-> now + Wait]},
                      !.timeout = TimerHandle(id),
                      !.nextTimerId = id + 1,
                      !.events = Append(@, [op |-> "call", at |-> now])]
  IN  IF immediate /\ ~Truthy(w1.timeout)
      THEN scan(w1, fault)
      ELSE [w |-> w1, threw |-> FALSE]

\* timerCallback that sets the timer again when func has thrown
timerCallbackRetry(w, fault) ==
  LET w1 == [w EXCEPT !.timeout = TimeoutNull]
      r == scan(w1, fault)
  IN  IF immediate THEN w1
      ELSE IF r.threw
      THEN [r.w EXCEPT !.errors = Append(@, "uncaught in timer"),
                       !.timers = @ \cup {[id |-> w.nextTimerId, due |-> now + Wait]},
                       !.timeout = TimerHandle(w.nextTimerId),
                       !.nextTimerId = w.nextTimerId + 1]
      ELSE r.w

\* the arrow function handed to setTimeout, run by the event loop: an
\* exception of func leaves it uncaught
timerCallback(w, fault) ==
  LET w1 == [w EXCEPT !.timeout = TimeoutNull]
      r == scan(w1, fault)
  IN  IF immediate THEN w1
      ELSE IF r.threw THEN [r.w EXCEPT !.errors = Append(@, "uncaught in timer")]
      ELSE r.w

\* the MutationObserver callback of startLiveScan
observerCallback(w, fault) ==
  LET r == debounced(w, fault)
  IN  IF r.threw
      THEN [r.w EXCEPT !.errors = Append(@, "Live scan threw an error"),
                       !.observing = FALSE,
                       !.records = FALSE]
      ELSE r.w

\* the microtask checkpoint after a task: queued records reach the observer,
\* whose callback may queue records again
RECURSIVE deliver(_, _)
deliver(w, fault) ==
  IF w.records /\ w.observing
  THEN deliver(observerCallback([w EXCEPT !.records = FALSE], fault), NoFault)
  ELSE [w EXCEPT !.records = FALSE]

(* ------------------------------ CssService ---------------------------- *)

NoCss == [tag |-> "none"]

\* getCssContent: of the style sheet, the two values that vary
getCssContent(config) ==
  [tag |-> "style", plusColor |-> config.plusColor, minusColor |-> config.minusColor]

\* setClass, on a class list
setClass(classes, className, condition) ==
  IF condition THEN classes \cup {className} ELSE classes \ {className}

\* updateClasses that never removes a class
updateClassesAddOnly(config, classes) ==
  classes \cup (IF isActiveHere(config) THEN {HtmlClass.FudgeOn} ELSE {})
          \cup (IF config.useColors THEN {HtmlClass.FudgeColorsOn} ELSE {})

\* update: the class list of the element of class fudge-running
updateClasses(config, classes) ==
  setClass(setClass(classes, HtmlClass.FudgeOn, isActiveHere(config)),
           HtmlClass.FudgeColorsOn, config.useColors)

(* ------------------------------ form components ----------------------- *)

\* the sanitization of <input type="color">: a simple color in lower case,
\* anything else "#000000"
SimpleColors ==
  {"#008800", "#CC0000", "#cc0000", "#00ff00", "#112233", "#123456", "#000000"}
LowerCase(c) == IF c = "#CC0000" THEN "#cc0000" ELSE c
Sanitize(c) == IF c \in SimpleColors THEN LowerCase(c) ELSE "#000000"

\* what the user types into the text field, and picks in the color picker
TypedTexts == {"#00ff00", "red"}
PickedColors == {"#00ff00", "#112233"}

\* set value of ColorPickerComponent: the component, and whether the change
\* callback is invoked
setColorValue(comp, newValue) ==
  [comp |-> [picker |-> IF comp.picker # newValue THEN Sanitize(newValue) ELSE comp.picker,
             text |-> newValue],
   updated |-> comp.picker # newValue \/ comp.text # newValue]

\* new ColorPickerComponent(label, defaultValue)
NewColorPicker(defaultValue) ==
  setColorValue([picker |-> "#000000", text |-> ""], defaultValue).comp

\* new ToggleComponent(label, defaultValue)
NewToggle(defaultValue) == [checked |-> defaultValue]

(* ------------------------------ ConfigMenuService --------------------- *)

\* Applied without userConfig.save()
AppliedNoSave(config) ==
  [config |-> config, item |-> localStorage, css |-> getCssContent(config),
   classes |-> updateClasses(config, rootClasses)]

\* what the four onChange handlers of createComponents share: save() and
\* cssService.update() on the changed configuration
Applied(config) ==
  [config |-> config, item |-> save(config), css |-> getCssContent(config),
   classes |-> updateClasses(config, rootClasses)]

fudgeOnChange(value) ==
  Applied(IF value THEN activateRoom(userConfig) ELSE deactivateRoom(userConfig))

colorsOnChange(value) == Applied([userConfig EXCEPT !.useColors = value])

plusColorChange(value) == Applied([userConfig EXCEPT !.plusColor = value])

minusColorChange(value) == Applied([userConfig EXCEPT !.minusColor = value])

Apply(r) ==
  /\ userConfig' = r.config
  /\ localStorage' = r.item
  /\ css' = r.css
  /\ rootClasses' = r.classes

\* FudgeOnClick whose handler also calls the debounced scan
FudgeOnClickRescans ==
  /\ pc = "running"
  /\ nextTimerId <= MaxTimers
  /\ fudgeOn' = [checked |-> ~fudgeOn.checked]
  /\ Apply(fudgeOnChange(~fudgeOn.checked))
  /\ LET w == debounced(World, NoFault).w
     IN  /\ timeout' = w.timeout
         /\ timers' = w.timers
         /\ nextTimerId' = w.nextTimerId
         /\ events' = w.events
  /\ UNCHANGED <<pc, envVars, colorsOn, plusColorInput, minusColorInput,
                 observing, doc, now, errors, probe>>

\* the user clicks the checkbox "Use fudge dice here"
FudgeOnClick ==
  /\ pc = "running"
  /\ fudgeOn' = [checked |-> ~fudgeOn.checked]
  /\ Apply(fudgeOnChange(~fudgeOn.checked))
  /\ UNCHANGED <<pc, envVars, colorsOn, plusColorInput, minusColorInput,
                 schedVars, doc, now, errors, probe>>

\* the user clicks the checkbox "Color the fudge dice"
ColorsOnClick ==
  /\ pc = "running"
  /\ colorsOn' = [checked |-> ~colorsOn.checked]
  /\ Apply(colorsOnChange(~colorsOn.checked))
  /\ UNCHANGED <<pc, envVars, fudgeOn, plusColorInput, minusColorInput,
                 schedVars, doc, now, errors, probe>>

\* a change event of one input of a color picker component, after the user
\* typed into the text field or picked a color
ColorEdit(comp, field, c) ==
  IF field = "text"
  THEN setColorValue([comp EXCEPT !.text = c], c)
  ELSE setColorValue([comp EXCEPT !.picker = c], c)

ColorEdits ==
  {<<"text", c>> : c \in TypedTexts} \cup {<<"picker", c>> : c \in PickedColors}

PlusColorEdit ==
  /\ pc = "running"
  /\ \E e \in ColorEdits :
       LET r == ColorEdit(plusColorInput, e[1], e[2])
       IN  /\ plusColorInput[e[1]] # e[2]
           /\ plusColorInput' = r.comp
           /\ IF r.updated THEN Apply(plusColorChange(r.comp.text))
              ELSE UNCHANGED <<configVars, cssVars>>
  /\ UNCHANGED <<pc, envVars, fudgeOn, colorsOn, minusColorInput,
                 schedVars, doc, now, errors, probe>>

MinusColorEdit ==
  /\ pc = "running"
  /\ \E e \in ColorEdits :
       LET r == ColorEdit(minusColorInput, e[1], e[2])
       IN  /\ minusColorInput[e[1]] # e[2]
           /\ minusColorInput' = r.comp
           /\ IF r.updated THEN Apply(minusColorChange(r.comp.text))
              ELSE UNCHANGED <<configVars, cssVars>>
  /\ UNCHANGED <<pc, envVars, fudgeOn, colorsOn, plusColorInput,
                 schedVars, doc, now, errors, probe>>

(* ------------------------------ Main.start ---------------------------- *)

SetWorld(w) ==
  /\ doc' = w.doc
  /\ timeout' = w.timeout
  /\ timers' = w.timers
  /\ nextTimerId' = w.nextTimerId
  /\ observing' = w.observing
  /\ errors' = w.errors
  /\ events' = w.events

\* UserConfig.init: the slot after the first save
initItem == IF Falsy(localStorage) THEN save(DefaultConfig) ELSE localStorage

\* ChatService.init without the test for the chat element
chatInitNeverThrows == FALSE

\* ChatService.init throws when there is no chat element
chatInitThrows == getChatElement = "null"

\* ChatService.init that starts the live scan on every page
chatInitAlwaysObserves ==
  LET r == debounced(World, NoFault)
  IN  [r.w EXCEPT !.observing = TRUE]

\* ChatService.init without startLiveScan
chatInitNoObserver ==
  LET r == debounced(World, NoFault)
  IN  [r.w EXCEPT !.observing = FALSE]

\* ChatService.init, when the chat element exists: one call of the debounced
\* scan, then startLiveScan in a live room
chatInit ==
  LET r == debounced(World, NoFault)
  IN  [r.w EXCEPT !.observing = isLive]

Start ==
  /\ pc = "load"
  /\ IF ~onRpgSe
     THEN /\ pc' = "inactive"
          /\ UNCHANGED <<configVars, uiVars, cssVars, schedVars, doc, errors>>
     ELSE /\ localStorage' = initItem
          /\ IF LoadThrows(initItem)
             THEN /\ pc' = "aborted"
                  /\ errors' = Append(errors, "uncaught in Main.start")
                  /\ UNCHANGED <<userConfig, uiVars, cssVars, schedVars, doc>>
             ELSE LET config == load(DefaultConfig, initItem)
                  IN  /\ userConfig' = config
                      /\ IF chatInitThrows
                         THEN /\ pc' = "aborted"
                              /\ errors' = errors \o
                                   <<"Tried to initialise ChatService, but no chat element found!",
                                     "uncaught in Main.start">>
                              /\ UNCHANGED <<uiVars, cssVars, schedVars, doc>>
                         ELSE /\ pc' = "running"
                              /\ SetWorld(chatInit)
                              /\ css' = getCssContent(config)
                              /\ rootClasses' =
                                   updateClasses(config, rootClasses \cup {HtmlClass.FudgeRoot})
                              /\ fudgeOn' = NewToggle(isActiveHere(config))
                              /\ colorsOn' = NewToggle(config.useColors)
                              /\ plusColorInput' = NewColorPicker(config.plusColor)
                              /\ minusColorInput' = NewColorPicker(config.minusColor)
  /\ UNCHANGED <<envVars, now, probe>>

(* ------------------------------ the host page ------------------------- *)

\* the dice the host renders: any of DotLists below the chat element of this
\* page, and a full die in the sidebar, which is outside the chat element
HostDice ==
  {NewDie(getChatElement, dots) : dots \in IF getChatElement = "null" THEN {} ELSE DotLists}
  \cup {NewDie("sidebar", Bullets(MaxPips))}

FaultCount ==
  Cardinality({i \in DOMAIN errors :
                 errors[i] \in {"uncaught in timer", "Live scan threw an error"}})

\* the host renders a message with a die, whether the script runs or not;
\* an observer of the chat element is notified when the die is below it
HostInsert ==
  /\ pc # "load"
  /\ Len(doc) < MaxDice
  /\ \E die \in HostDice :
       LET w == [World EXCEPT !.doc = Append(@, die),
                              !.records = (die.parent = ObservedTarget)]
           after == deliver(w, NoFault)
       IN  /\ after.nextTimerId <= MaxTimers + 1
           /\ SetWorld(after)
  /\ UNCHANGED <<pc, envVars, configVars, uiVars, cssVars, now, probe>>

\* the host renders a message with a full die below the chat element
HostInsertFull ==
  /\ pc # "load"
  /\ getChatElement # "null"
  /\ Len(doc) < MaxDice
  /\ LET die == NewDie(getChatElement, Bullets(MaxPips))
         w == [World EXCEPT !.doc = Append(@, die),
                            !.records = (die.parent = ObservedTarget)]
         after == deliver(w, NoFault)
     IN  /\ after.nextTimerId <= MaxTimers + 1
         /\ SetWorld(after)
  /\ UNCHANGED <<pc, envVars, configVars, uiVars, cssVars, now, probe>>

\* the host renders a die while the model has a timer left for the pass
\* that the overlay of this die will schedule
HostRenders ==
  /\ nextTimerId < MaxTimers
  /\ HostInsert

\* the host changes the chat element otherwise: a message without dice
HostMutate ==
  /\ pc = "running"
  /\ getChatElement # "null"
  /\ LET after == deliver([World EXCEPT !.records = TRUE], NoFault)
     IN  /\ after.nextTimerId <= MaxTimers + 1
         /\ SetWorld(after)
  /\ UNCHANGED <<pc, envVars, configVars, uiVars, cssVars, now, probe>>

(* ------------------------------ the event loop ------------------------ *)

\* the earliest of `limit` and the due times of the pending timers
NextStop(limit) ==
  LET stops == {limit} \cup {t.due : t \in timers}
  IN  CHOOSE x \in stops : \A y \in stops : x <= y

\* time passes, whether the script runs or not: a timer runs when it is due,
\* so the clock does not pass a pending timer
Tick ==
  /\ pc # "load"
  /\ now < MaxTime
  /\ \A t \in timers : now < t.due
  /\ now' = NextStop(now + TickStep)
  /\ UNCHANGED <<pc, envVars, configVars, uiVars, cssVars, schedVars, doc,
                 errors, probe>>

\* time passes until the pending timer is due
Elapse ==
  /\ pc = "running"
  /\ timers # {}
  /\ \A t \in timers : now < t.due
  /\ now' = NextStop(now + Wait)
  /\ UNCHANGED <<pc, envVars, configVars, uiVars, cssVars, schedVars, doc,
                 errors, probe>>

\* a due timer fires: the callback runs, then the observer is notified
Fire ==
  /\ \E t \in timers, fault \in Faults(doc) :
       /\ t.due <= now
       /\ fault # NoFault => FaultCount < MaxFaults
       /\ LET w == timerCallback([World EXCEPT !.timers = @ \ {t}], fault)
              after == deliver(w, NoFault)
          IN  /\ after.nextTimerId <= MaxTimers + 1
              /\ SetWorld(after)
  /\ UNCHANGED <<pc, envVars, configVars, uiVars, cssVars, now, probe>>

\* a due timer fires and the pass completes
FireNoFault ==
  /\ \E t \in timers :
       /\ t.due <= now
       /\ \E w \in {timerCallback([World EXCEPT !.timers = @ \ {t}], NoFault)} :
            \E after \in {deliver(w, NoFault)} :
              /\ after.nextTimerId <= MaxTimers + 1
              /\ SetWorld(after)
  /\ UNCHANGED <<pc, envVars, configVars, uiVars, cssVars, now, probe>>

(* ------------------------------ FudgeUtil, called directly ------------ *)

NoProbe == [num |-> 0, score |-> 0, fudge |-> <<>>, shown |-> <<>>]

CallD6toFudge ==
  /\ probe.fudge = <<>>
  /\ probe' = [probe EXCEPT !.fudge = <<d6toFudge(probe.num)>>]
  /\ UNCHANGED <<pc, envVars, configVars, uiVars, cssVars, schedVars, doc,
                 now, errors>>

CallDisplayScore ==
  /\ probe.shown = <<>>
  /\ probe' = [probe EXCEPT !.shown = <<displayScore(probe.score)>>]
  /\ UNCHANGED <<pc, envVars, configVars, uiVars, cssVars, schedVars, doc,
                 now, errors>>

(* ------------------------------ specifications ------------------------ *)

\* /rooms/11/name, /transcript/11, /rooms/11/conversation/name, /rooms/42/name,
\* /rooms/8403/fate
LivePath == <<"", "rooms", "11", "name">>
Pathnames ==
  {LivePath, <<"", "transcript", "11">>,
   <<"", "rooms", "11", "conversation", "name">>, <<"", "rooms", "42", "name">>,
   <<"", "rooms", "8403", "fate">>}

ContainerIds == {"chat", "transcript", "conversation"}

\* the state when the user script is run, the services constructed
InitCommon ==
  /\ pc = "load"
  /\ userConfig = DefaultConfig
  /\ rootClasses = {}
  /\ css = NoCss
  /\ fudgeOn = NewToggle(FALSE)
  /\ colorsOn = NewToggle(FALSE)
  /\ plusColorInput = [picker |-> "#000000", text |-> ""]
  /\ minusColorInput = [picker |-> "#000000", text |-> ""]
  /\ timeout = TimeoutUndefined
  /\ timers = {}
  /\ nextTimerId = 1
  /\ observing = FALSE
  /\ now = 0
  /\ events = <<>>
  /\ errors = <<>>
  /\ doc = <<>>

\* the user opens another page, or the same again: a new document, in which
\* the script starts over; the storage slot is what stays
Reload ==
  /\ pc # "load"
  /\ pathname' \in Pathnames
  /\ pc' = "load"
  /\ userConfig' = DefaultConfig
  /\ rootClasses' = {}
  /\ css' = NoCss
  /\ fudgeOn' = NewToggle(FALSE)
  /\ colorsOn' = NewToggle(FALSE)
  /\ plusColorInput' = [picker |-> "#000000", text |-> ""]
  /\ minusColorInput' = [picker |-> "#000000", text |-> ""]
  /\ timeout' = TimeoutUndefined
  /\ timers' = {}
  /\ nextTimerId' = 1
  /\ observing' = FALSE
  /\ now' = 0
  /\ events' = <<>>
  /\ errors' = <<>>
  /\ doc' = <<>>
  /\ UNCHANGED <<onRpgSe, elementIds, immediate, localStorage, probe>>

\* the annotation of dice: a live room and a transcript, dice below the chat
\* element and in the sidebar, passes that throw
Init ==
  /\ InitCommon
  /\ pathname \in {LivePath, <<"", "transcript", "11">>}
  /\ onRpgSe = TRUE
  /\ elementIds = ContainerIds
  /\ immediate = FALSE
  /\ localStorage = NoItem
  /\ probe = NoProbe

Next ==
  \/ Start
  \/ HostInsert
  \/ HostMutate
  \/ Elapse
  \/ Fire

Spec == Init /\ [][Next]_vars

\* the debounced scan in time: a live room without dice
InitDebounce ==
  /\ InitCommon
  /\ pathname = LivePath
  /\ onRpgSe = TRUE
  /\ elementIds = ContainerIds
  /\ immediate = FALSE
  /\ localStorage = NoItem
  /\ probe = NoProbe

NextDebounce ==
  \/ Start
  \/ HostMutate
  \/ Tick
  \/ Fire

SpecDebounce == InitDebounce /\ [][NextDebounce]_vars

\* the configuration: the menu, the storage slot and the presentation, over
\* page loads in several rooms, from an empty slot
InitConfig ==
  /\ InitCommon
  /\ pathname \in Pathnames
  /\ onRpgSe = TRUE
  /\ elementIds = ContainerIds
  /\ immediate = FALSE
  /\ localStorage = NoItem
  /\ probe = NoProbe

NextConfig ==
  \/ Start
  \/ FudgeOnClick
  \/ ColorsOnClick
  \/ PlusColorEdit
  \/ MinusColorEdit
  \/ Reload

SpecConfig == InitConfig /\ [][NextConfig]_vars

\* what an earlier session may have left in the slot: a record that holds
\* any of the four fields, with values other than the defaults
StoredValues ==
  [useColors |-> JsonBool(TRUE), plusColor |-> JsonString("#123456"),
   minusColor |-> JsonString("#112233"), rooms |-> JsonArray(<<"42">>)]

PartialRecord(present) ==
  LET keys == SelectSeq(ConfigKeys, LAMBDA k : k \in present)
  IN  JsonText([i \in DOMAIN keys |-> [key |-> keys[i], val |-> StoredValues[keys[i]]]])

StoredItems ==
  {NoItem, EmptyText, NullText, BrokenText}
  \cup {PartialRecord(present) : present \in SUBSET {"useColors", "plusColor", "minusColor", "rooms"}}
  \cup {JsonText(<<[key |-> "useColors", val |-> JsonBool(TRUE)],
                   [key |-> "plusColor", val |-> JsonNull]>>)}

\* the configuration over page loads, from whatever the slot holds
InitStored ==
  /\ InitCommon
  /\ pathname = LivePath
  /\ onRpgSe = TRUE
  /\ elementIds = ContainerIds
  /\ immediate = FALSE
  /\ localStorage \in StoredItems
  /\ probe = NoProbe

SpecStored == InitStored /\ [][NextConfig]_vars

\* startup on pages that lack the chat element of their kind, and on sites
\* other than RPG.SE: a live room, a transcript and a conversation
InitStartup ==
  /\ InitCommon
  /\ pathname \in {LivePath, <<"", "transcript", "11">>,
                    <<"", "rooms", "11", "conversation", "name">>}
  /\ onRpgSe \in BOOLEAN
  /\ elementIds \in {{}, {"transcript"}, {"conversation"}}
  /\ immediate = FALSE
  /\ localStorage = NoItem
  /\ probe = NoProbe

NextStartup ==
  \/ Start
  \/ HostInsert
  \/ Tick
  \/ Fire

SpecStartup == InitStartup /\ [][NextStartup]_vars

\* debounce created with immediate = true, around the same scan
InitImmediate ==
  /\ InitCommon
  /\ pathname = LivePath
  /\ onRpgSe = TRUE
  /\ elementIds = ContainerIds
  /\ immediate = TRUE
  /\ localStorage = NoItem
  /\ probe = NoProbe

SpecImmediate == InitImmediate /\ [][NextDebounce]_vars

\* the user at the menu of a live room while the host renders dice and
\* passes run
InitIndependent ==
  /\ InitCommon
  /\ pathname = LivePath
  /\ onRpgSe = TRUE
  /\ elementIds = ContainerIds
  /\ immediate = FALSE
  /\ localStorage = NoItem
  /\ probe = NoProbe

NextIndependent ==
  \/ Start
  \/ FudgeOnClick
  \/ ColorsOnClick
  \/ PlusColorEdit
  \/ MinusColorEdit
  \/ HostInsertFull
  \/ Elapse
  \/ FireNoFault

SpecIndependent == InitIndependent /\ [][NextIndependent]_vars

\* a live room whose host renders dice for a while and then pauses, and
\* whose passes return; time passes, and the event loop runs a due timer
InitLive ==
  /\ InitCommon
  /\ pathname = LivePath
  /\ onRpgSe = TRUE
  /\ elementIds = ContainerIds
  /\ immediate = FALSE
  /\ localStorage = NoItem
  /\ probe = NoProbe

NextLive ==
  \/ Start
  \/ HostRenders
  \/ Elapse
  \/ FireNoFault

SpecLive ==
  /\ InitLive
  /\ [][NextLive]_vars
  /\ WF_vars(Elapse)
  /\ WF_vars(FireNoFault)

\* FudgeUtil on its own
InitScore ==
  /\ InitCommon
  /\ pathname = LivePath
  /\ onRpgSe = TRUE
  /\ elementIds = ContainerIds
  /\ immediate = FALSE
  /\ localStorage = NoItem
  /\ probe \in [num : 0..MaxNum, score : {FudgeScore.Minus, FudgeScore.Zero, FudgeScore.Plus},
                fudge : {<<>>}, shown : {<<>>}]

NextScore ==
  \/ CallD6toFudge
  \/ CallDisplayScore

SpecScore == InitScore /\ [][NextScore]_vars


(* ------------------------------ properties ---------------------------- *)

CallIdx == {i \in DOMAIN events : events[i].op = "call"}
ScanIdx == {i \in DOMAIN events : events[i].op = "scan"}

\* i and j are two calls of the debounced function with no call between them
ConsecutiveCalls(i, j) ==
  /\ i \in CallIdx /\ j \in CallIdx /\ i < j
  /\ ~\E k \in CallIdx : i < k /\ k < j

\* every call came less than the window after the one before
AllWithin ==
  \A i, j \in CallIdx : ConsecutiveCalls(i, j) => events[j].at - events[i].at < Wait

\* every call came more than the window after the one before
AllBeyond ==
  \A i, j \in CallIdx : ConsecutiveCalls(i, j) => events[j].at - events[i].at > Wait

PendingCount == Cardinality(timers)

\* the class of a pip count, as the specification states it
Outcome(p) == IF p <= 2 THEN -1 ELSE IF p >= 5 THEN 1 ELSE 0
OutcomeText(p) == IF p <= 2 THEN "-1" ELSE IF p >= 5 THEN "1" ELSE "0"

\* the dots of a die that show a bullet
Pips(die) == Cardinality({i \in DOMAIN die.dots : \E k \in DOMAIN die.dots[i] : die.dots[i][k] = BulletChar})

NoDuplicates(arr) == \A i, j \in DOMAIN arr : arr[i] = arr[j] => i = j

\* C1: a pass run right after a pass, the host changing nothing in between,
\* selects no die and leaves the document as the first pass left it.
C1_ScanIdempotent ==
  LET once == scanDoc(doc, NoFault)
  IN  /\ Select(once) = {}
      /\ scanDoc(once, NoFault) = once

\* C1 witness: two passes have run, the second over the dice the first had
\* annotated, and every die has its single overlay.
C1_Witness ==
  /\ Cardinality(ScanIdx) >= 2
  /\ Len(doc) = 2
  /\ \A i \in DOMAIN doc : doc[i].fudgeDie /\ Len(doc[i].faces) = 1

\* C2: N calls of the debounced scan, each less than the window after the one
\* before, execute scan() once (when the last window has closed); N calls,
\* each more than the window after the one before, execute it N times.
C2_DebounceCoalescing ==
  CallIdx # {} =>
    /\ AllWithin => Cardinality(ScanIdx) = (IF timers # {} THEN 0 ELSE 1)
    /\ AllBeyond => Cardinality(ScanIdx) = Cardinality(CallIdx) - PendingCount

\* C2 witness: three calls within the window of one another, one execution.
C2_Witness ==
  /\ Cardinality(CallIdx) = 3
  /\ AllWithin
  /\ timers = {}
  /\ Cardinality(ScanIdx) = 1

\* three calls more than the window apart, three executions
C2_WitnessApart ==
  /\ Cardinality(CallIdx) = 3
  /\ AllBeyond
  /\ timers = {}
  /\ Cardinality(ScanIdx) = 3

\* C3: a call made while a window is open cancels the pending timer and opens
\* a new window, so at most one timer is pending, due one window after the
\* last call; scan() runs only when a window has passed since the last call,
\* and once for the burst.
C3_TrailingEdge ==
  /\ PendingCount <= 1
  /\ \A t \in timers :
       /\ timeout = TimerHandle(t.id)
       /\ \E i \in CallIdx :
            /\ \A k \in CallIdx : k <= i
            /\ t.due = events[i].at + Wait
  /\ \A j \in ScanIdx :
       \E i \in CallIdx :
         /\ i < j
         /\ \A k \in CallIdx : k < j => k <= i
         /\ events[j].at >= events[i].at + Wait
         /\ \A k \in ScanIdx : k < j => k < i

\* C3 witness: scan() has run after a burst of three calls.
C3_Witness ==
  \E j \in ScanIdx :
    /\ {1, 2, 3} \subseteq CallIdx
    /\ j = 4
    /\ events[3].at - events[1].at < Wait
    /\ events[3].at > events[1].at

\* C4: d6toFudge(p) is Minus for p <= 2, Plus for p >= 5, out of range too,
\* and Zero otherwise; displayScore gives the empty string for Zero and a
\* fixed glyph that is not empty for Minus and for Plus.
C4_ScoreClassification ==
  /\ probe.fudge # <<>> => probe.fudge[1] = Outcome(probe.num)
  /\ probe.shown # <<>> =>
       /\ probe.score = 0 => probe.shown[1] = ""
       /\ probe.score = -1 => probe.shown[1] = "&minus;"
       /\ probe.score = 1 => probe.shown[1] = "&plus;"

\* C4 witness: a pip count above six was classified, and a Minus displayed.
C4_Witness ==
  /\ probe.num > 6
  /\ probe.fudge = <<1>>
  /\ probe.score = -1
  /\ probe.shown # <<>>

\* C5: after a pass, every die that was not processed has the marker, the
\* outcome of its pip count and one overlay; every die that was processed
\* is as it was.
C5_EndToEnd ==
  LET after == scanDoc(doc, NoFault)
  IN  \A i \in DOMAIN doc :
        IF doc[i].fudgeDie
        THEN after[i] = doc[i]
        ELSE /\ after[i].fudgeDie
             /\ getAttribute(after[i].attrs, "data-fudge-score") = OutcomeText(Pips(doc[i]))
             /\ Len(after[i].faces) = 1

\* C5 witness: a pass has run over a die of one pip and a die of six, and
\* left them with outcomes -1 and +1 and one overlay each.
C5_Witness ==
  /\ ScanIdx # {}
  /\ \E i, j \in DOMAIN doc :
       /\ Pips(doc[i]) = 1 /\ Pips(doc[j]) = 6
       /\ doc[i].fudgeDie /\ doc[j].fudgeDie
       /\ getAttribute(doc[i].attrs, "data-fudge-score") = "-1"
       /\ getAttribute(doc[j].attrs, "data-fudge-score") = "1"
       /\ Len(doc[i].faces) = 1 /\ Len(doc[j].faces) = 1

\* a processed die and a die not yet processed stand in the document, so
\* that the next pass meets both
C5_WitnessMixed ==
  \E i, j \in DOMAIN doc :
    /\ doc[i].fudgeDie /\ Len(doc[i].faces) = 1 /\ Pips(doc[i]) = 3
    /\ ~doc[j].fudgeDie

\* C6: once a pass has thrown during live scanning, the mutation observer is
\* disconnected.
C6_FaultDisconnects ==
  (isLive /\ \E i \in DOMAIN errors : errors[i] = "uncaught in timer") => ~observing

\* C6, the consequence: after a pass has thrown, no call of the debounced
\* scan is made any more.
C6_NoCallAfterFault ==
  [][(\E i \in DOMAIN errors : errors[i] = "uncaught in timer")
       => Cardinality(CallIdx') <= Cardinality(CallIdx)]_vars

\* C7: a die outside the chat element is never marked, nor given attributes
\* or an overlay.
C7_ScanScoped ==
  \A i \in DOMAIN doc :
    doc[i].parent # getChatElement =>
      ~doc[i].fudgeDie /\ doc[i].attrs = {} /\ doc[i].faces = <<>>

\* C8: activateRoom with the room in the list and deactivateRoom with the
\* room not in it leave the list as it is, and the list, from the default
\* one on, never holds an identifier twice.
C8_RoomSet ==
  /\ isActiveHere(userConfig) => activateRoom(userConfig) = userConfig
  /\ ~isActiveHere(userConfig) => deactivateRoom(userConfig) = userConfig
  /\ NoDuplicates(userConfig.rooms)

\* C8 witness: rooms were deactivated and activated again, in another order
\* than the default one.
C8_Witness ==
  /\ pc = "running"
  /\ userConfig.rooms = <<"42", "11", "8403">>

\* configurations the fields may hold between a save and a load
OtherConfigs ==
  {DefaultConfig,
   [useColors |-> TRUE, plusColor |-> "red", minusColor |-> "#112233", rooms |-> <<>>],
   [useColors |-> FALSE, plusColor |-> "", minusColor |-> "", rooms |-> <<"42", "42">>]}

\* C9: load() after save() gives back the configuration saved, field for
\* field, whatever the fields held in between.
C9_RoundTrip ==
  \A held \in OtherConfigs : load(held, save(userConfig)) = userConfig

\* C9 witness: a configuration that differs from the default in every field
\* was saved, and a later page load read it back.
C9_Witness ==
  /\ pc = "running"
  /\ userConfig.useColors
  /\ userConfig.plusColor = "red"
  /\ userConfig.minusColor = "#112233"
  /\ userConfig.rooms = <<"8403", "42">>
  /\ localStorage = save(userConfig)
  /\ roomId = "11"

\* C10: once started, the presentation root has fudge--on exactly when the
\* room is in the room list and fudge-colors--on exactly when useColors is
\* set, and the style sheet holds the two configured colors.
C10_Presentation ==
  pc = "running" =>
    /\ (HtmlClass.FudgeOn \in rootClasses) <=> ArrayIncludes(userConfig.rooms, roomId)
    /\ (HtmlClass.FudgeColorsOn \in rootClasses) <=> userConfig.useColors
    /\ css = [tag |-> "style", plusColor |-> userConfig.plusColor,
              minusColor |-> userConfig.minusColor]

\* C10 witness: the room was switched off after the colors were switched on
\* and both colors edited.
C10_Witness ==
  /\ pc = "running"
  /\ ~ArrayIncludes(userConfig.rooms, roomId)
  /\ roomId = "11"
  /\ userConfig.useColors
  /\ userConfig.plusColor = "#00ff00"
  /\ userConfig.minusColor = "red"
  /\ rootClasses = {HtmlClass.FudgeRoot, HtmlClass.FudgeColorsOn}

\* the stored value of a field: <<v>>, or <<>> when the record has no such
\* member or holds null there
StoredField(item, key) ==
  IF item.kind # "object" THEN <<>>
  ELSE LET at == {i \in DOMAIN item.members : item.members[i].key = key}
       IN  IF at = {} THEN <<>>
           ELSE LET m == item.members[CHOOSE i \in at : \A j \in at : j <= i].val
                IN  CASE m.type = "null" -> <<>>
                      [] m.type = "bool" -> <<m.lit = "true">>
                      [] m.type = "string" -> <<m.chars>>
                      [] m.type = "array" -> <<[i \in DOMAIN m.items |-> m.items[i].chars]>>

\* the stored record equals the configuration field for field
FieldForField(item, config) ==
  /\ StoredField(item, "useColors") = <<config.useColors>>
  /\ StoredField(item, "plusColor") = <<config.plusColor>>
  /\ StoredField(item, "minusColor") = <<config.minusColor>>
  /\ StoredField(item, "rooms") = <<config.rooms>>

\* the stored record equals the configuration on every field it holds
AgreesOnHeld(item, config) ==
  /\ StoredField(item, "useColors") \in {<<>>, <<config.useColors>>}
  /\ StoredField(item, "plusColor") \in {<<>>, <<config.plusColor>>}
  /\ StoredField(item, "minusColor") \in {<<>>, <<config.minusColor>>}
  /\ StoredField(item, "rooms") \in {<<>>, <<config.rooms>>}

\* C11, as claimed: once started, the record in the slot equals the
\* in-memory configuration field for field.
C11_StoredEqualsMemory ==
  pc = "running" => FieldForField(localStorage, userConfig)

\* C11, amended: once started, the record in the slot equals the in-memory
\* configuration on every field the record holds, and every step that
\* changes the in-memory configuration leaves the record equal to it field
\* for field.
C11_PersistedOnChange ==
  /\ [](pc = "running" => AgreesOnHeld(localStorage, userConfig))
  /\ [][(pc = "running" /\ pc' = "running" /\ userConfig' # userConfig)
          => FieldForField(localStorage', userConfig')]_vars

\* C11 witness: the script started on a record that held a plus color and
\* no minus color, and a change handler has since written the whole
\* configuration, the default minus color with it.
C11_Witness ==
  /\ pc = "running"
  /\ userConfig.plusColor = "#123456"
  /\ userConfig.minusColor = "#CC0000"
  /\ FieldForField(localStorage, userConfig)

\* the record holds null in some field
HoldsNull(item) ==
  item.kind = "object" /\ \E i \in DOMAIN item.members : item.members[i].val.type = "null"

\* C14: startup on a stored record from which any of the four fields are
\* missing does not fail and does not write the slot; every field the record
\* holds gets the stored value, every missing field its default: useColors
\* false, plusColor '#008800', minusColor '#CC0000', rooms ['8403', '11'].
C14_DefaultFallback ==
  [][(pc = "load" /\ localStorage.kind = "object" /\ ~HoldsNull(localStorage))
       => /\ pc' = "running"
          /\ localStorage' = localStorage
          /\ <<userConfig'.useColors>> =
               (IF StoredField(localStorage, "useColors") = <<>> THEN <<FALSE>>
                ELSE StoredField(localStorage, "useColors"))
          /\ <<userConfig'.plusColor>> =
               (IF StoredField(localStorage, "plusColor") = <<>> THEN <<"#008800">>
                ELSE StoredField(localStorage, "plusColor"))
          /\ <<userConfig'.minusColor>> =
               (IF StoredField(localStorage, "minusColor") = <<>> THEN <<"#CC0000">>
                ELSE StoredField(localStorage, "minusColor"))
          /\ <<userConfig'.rooms>> =
               (IF StoredField(localStorage, "rooms") = <<>> THEN <<(<<"8403", "11">>)>>
                ELSE StoredField(localStorage, "rooms"))]_vars

\* C14 witness: the script has started on a record that holds the colors
\* toggle and the plus color, and neither the minus color nor the rooms.
C14_Witness ==
  /\ pc = "running"
  /\ StoredField(localStorage, "useColors") = <<TRUE>>
  /\ StoredField(localStorage, "plusColor") = <<"#123456">>
  /\ StoredField(localStorage, "minusColor") = <<>>
  /\ StoredField(localStorage, "rooms") = <<>>
  /\ ~HoldsNull(localStorage)
  /\ userConfig = [useColors |-> TRUE, plusColor |-> "#123456",
                   minusColor |-> "#CC0000", rooms |-> <<"8403", "11">>]

\* C12: when the page has no chat element at startup, ChatService.init
\* reports it and throws, Main.start ends there, and from then on no call of
\* the debounced scan is made, no timer is set, no pass runs, no observer is
\* connected and no die is touched.
C12_InitFault ==
  (onRpgSe /\ pc # "load" /\ getChatElement = "null") =>
    /\ pc = "aborted"
    /\ errors = <<"Tried to initialise ChatService, but no chat element found!",
                  "uncaught in Main.start">>
    /\ CallIdx = {} /\ ScanIdx = {}
    /\ timers = {} /\ timeout = TimeoutUndefined
    /\ ~observing
    /\ \A i \in DOMAIN doc :
         ~doc[i].fudgeDie /\ doc[i].attrs = {} /\ doc[i].faces = <<>>

\* C12 witness: startup was aborted in a live room without chat element; the
\* host has rendered a die since, and more than a window has passed.
C12_Witness ==
  /\ pc = "aborted"
  /\ isLive
  /\ getChatElement = "null"
  /\ Len(doc) >= 1
  /\ now > Wait

\* a pass has thrown in the timer callback
Thrown == \E i \in DOMAIN errors : errors[i] = "uncaught in timer"

\* C13: the step in which the pass throws in the timer callback runs the pass
\* once, makes no call and leaves no timer pending; a timer is pending after
\* that only when a call was made after the last execution, one window
\* after that call; and that timer goes by executing the pass, a window or
\* more after the call.
C13_SurvivesFault ==
  /\ [][(Len(errors') = Len(errors) + 1 /\ errors'[Len(errors')] = "uncaught in timer")
          => /\ timers' = {}
             /\ timeout' = TimeoutNull
             /\ events' = Append(events, [op |-> "scan", at |-> now])]_vars
  /\ []((Thrown /\ timers # {})
          => /\ events[Len(events)].op = "call"
             /\ timers = {[id |-> nextTimerId - 1, due |-> events[Len(events)].at + Wait]})
  /\ [][(Thrown /\ timers # {} /\ timers' = {})
          => /\ events' = Append(events, [op |-> "scan", at |-> now])
             /\ now >= events[Len(events)].at + Wait]_vars

\* C13 witness: a pass threw, a call made after it opened a window, and the
\* pass ran again when that window had closed.
C13_Witness ==
  /\ Thrown
  /\ Len(events) = 4
  /\ events[1].op = "call" /\ events[2].op = "scan"
  /\ events[3].op = "call" /\ events[4].op = "scan"
  /\ events[3].at > events[2].at
  /\ events[4].at = events[3].at + Wait
  /\ timers = {}

\* a window is open again after a pass threw
C13_WitnessReopened ==
  /\ Thrown
  /\ timers # {}
  /\ \A t \in timers : t.due = now

\* call i begins a burst: no call was made in the window before it
BeginsBurst(i) ==
  /\ i \in CallIdx
  /\ \A k \in CallIdx : k < i => events[k].at + Wait <= events[i].at

\* C15: with immediate = true the wrapped function runs on the first call of
\* every burst, at the time of that call, and at no other time.
C15_LeadingEdge ==
  immediate =>
    /\ \A i \in CallIdx :
         BeginsBurst(i) =>
           /\ i + 1 \in ScanIdx
           /\ events[i + 1].at = events[i].at
    /\ \A j \in ScanIdx : j > 1 /\ BeginsBurst(j - 1)

\* C16: every die has at most one overlay, a die has an overlay only if it
\* has the marker, and no step changes a die that has the marker.
C16_AtMostOnce ==
  /\ [](\A i \in DOMAIN doc :
          /\ Len(doc[i].faces) <= 1
          /\ doc[i].faces # <<>> => doc[i].fudgeDie)
  /\ [][\A i \in DOMAIN doc : doc[i].fudgeDie => (i \in DOMAIN doc' /\ doc'[i] = doc[i])]_vars

\* C16 witness: one die has its overlay, another was left with the marker
\* and both attributes when its pass threw, and a later pass has run over
\* both.
C16_Witness ==
  /\ Cardinality(ScanIdx) >= 2
  /\ timers = {}
  /\ \E i, j \in DOMAIN doc :
       /\ doc[i].fudgeDie /\ Len(doc[i].faces) = 1
       /\ doc[j].fudgeDie /\ doc[j].faces = <<>> /\ Cardinality(doc[j].attrs) = 2

\* the decimal numeral of a pip count
PipText(p) == <<"0", "1", "2", "3", "4", "5", "6", "7", "8", "9">>[p + 1]

\* C17: every die a pass has processed carries data-d6-score, the number of
\* its dots that show a bullet, and data-fudge-score, the class of that
\* number.
C17_Metadata ==
  \A i \in DOMAIN doc :
    doc[i].faces # <<>> =>
      /\ getAttribute(doc[i].attrs, "data-d6-score") = PipText(Pips(doc[i]))
      /\ getAttribute(doc[i].attrs, "data-fudge-score") = OutcomeText(Pips(doc[i]))

\* C18: whatever statement a pass stops at, every die the step has changed
\* in any way has the marker; no die of the document has an attribute or an
\* overlay without the marker; and a pass entered in any state does not
\* select a die that has the marker and leaves it as it is.
C18_MarkFirst ==
  /\ [][\A i \in DOMAIN doc :
          (i \in DOMAIN doc' /\ doc'[i] # doc[i]) => doc'[i].fudgeDie]_vars
  /\ [](\A i \in DOMAIN doc :
          (doc[i].attrs # {} \/ doc[i].faces # <<>>) => doc[i].fudgeDie)
  /\ [](\A i \in DOMAIN doc :
          doc[i].fudgeDie =>
            /\ i \notin Select(doc)
            /\ scanDoc(doc, NoFault)[i] = doc[i])

\* C18 witness: a pass threw right after it had marked a die, and a later
\* pass has run and left that die with the marker alone.
C18_Witness ==
  /\ Thrown
  /\ Cardinality(ScanIdx) >= 2
  /\ \E i \in DOMAIN doc :
       doc[i].fudgeDie /\ doc[i].attrs = {} /\ doc[i].faces = <<>>

\* C19: once started, a step that changes the configuration, the slot, the
\* menu or the presentation makes no call of the debounced scan, runs no
\* pass, sets no timer and changes no die; a step that calls the debounced
\* scan, runs a pass, or changes a timer or a die leaves the configuration,
\* the slot, the menu and the presentation as they are.
C19_Independent ==
  [][pc = "running" =>
       /\ (configVars' # configVars \/ uiVars' # uiVars \/ cssVars' # cssVars)
            => UNCHANGED <<doc, schedVars>>
       /\ (doc' # doc \/ schedVars' # schedVars)
            => UNCHANGED <<configVars, uiVars, cssVars>>]_vars

\* C19 witness: the room was switched off and the colors changed while the
\* host rendered dice: one die has its overlay from a pass, another waits
\* for the open window to close.
C19_Witness ==
  /\ pc = "running"
  /\ ~ArrayIncludes(userConfig.rooms, roomId)
  /\ userConfig.useColors
  /\ userConfig.plusColor = "#00ff00"
  /\ rootClasses = {HtmlClass.FudgeRoot, HtmlClass.FudgeColorsOn}
  /\ localStorage = stringify(userConfig)
  /\ timers # {}
  /\ \E i, j \in DOMAIN doc :
       /\ doc[i].fudgeDie /\ Len(doc[i].faces) = 1
       /\ ~doc[j].fudgeDie

\* the step has appended an overlay to a die below the chat element
OverlayAppended ==
  \E i \in DOMAIN doc :
    doc[i].parent = getChatElement /\ Len(doc'[i].faces) > Len(doc[i].faces)

\* C20: a pass that appends an overlay below the observed chat element
\* schedules one more pass, a window later; a pass that appends none leaves
\* no timer pending; a pass that returns leaves no die to select, so the pass
\* its overlays schedule, the host changing nothing, finds none, changes
\* nothing and leaves no timer pending.
C20_Quiescence ==
  [][Cardinality(ScanIdx') > Cardinality(ScanIdx) =>
       /\ (observing /\ OverlayAppended)
            => /\ timers' = {[id |-> nextTimerId, due |-> now + Wait]}
               /\ events' = events \o <<[op |-> "scan", at |-> now],
                                        [op |-> "call", at |-> now]>>
       /\ ~(observing /\ OverlayAppended)
            => /\ timers' = {}
               /\ events' = Append(events, [op |-> "scan", at |-> now])
       /\ Len(errors') = Len(errors) => \A i \in DOMAIN doc' : doc'[i].fudgeDie
       /\ (\A i \in DOMAIN doc : doc[i].fudgeDie) => (doc' = doc /\ timers' = {})]_vars

\* C20 witness: in a live room a pass gave two dice their overlays, the
\* notification of the overlays scheduled another pass, which ran a window
\* later and found nothing; no timer is pending.
C20_Witness ==
  /\ isLive /\ observing
  /\ ~Thrown
  /\ timers = {}
  /\ Len(doc) = 2
  /\ \A i \in DOMAIN doc :
       doc[i].parent = getChatElement /\ doc[i].fudgeDie /\ Len(doc[i].faces) = 1
  /\ Len(events) >= 3
  /\ LET n == Len(events)
     IN  /\ events[n].op = "scan"
         /\ events[n - 1].op = "call"
         /\ events[n - 2].op = "scan"
         /\ events[n - 1].at = events[n - 2].at
         /\ events[n].at = events[n - 1].at + Wait

\* C21: in a live room whose passes return, every die rendered below the
\* chat element is in the end marked and has its one overlay, the host
\* pausing at last; and a pass runs only when a window has passed since the
\* call before it, so none runs while the calls keep coming sooner.
C21_EventuallyAnnotated ==
  /\ \A i \in 1..MaxDice :
       (i \in DOMAIN doc /\ doc[i].parent = getChatElement)
         ~> (i \in DOMAIN doc /\ doc[i].fudgeDie /\ Len(doc[i].faces) = 1)
  /\ [](\A j \in ScanIdx :
          /\ j > 1
          /\ events[j - 1].op = "call"
          /\ events[j].at >= events[j - 1].at + Wait)

\* C21 witness: a die was rendered just as the first window closed, which
\* put the pass off by a window; the pass then ran and the die has its
\* overlay.
C21_Witness ==
  /\ isLive /\ observing
  /\ Len(events) >= 3
  /\ events[1] = [op |-> "call", at |-> 0]
  /\ events[2] = [op |-> "call", at |-> Wait]
  /\ events[3] = [op |-> "scan", at |-> Wait + Wait]
  /\ \E i \in DOMAIN doc :
       doc[i].parent = getChatElement /\ doc[i].fudgeDie /\ Len(doc[i].faces) = 1


\* C22: on a page that is not a live room (a transcript or a conversation)
\* where startup succeeded, no observer is started, the pass is scheduled
\* once, by the call in init, and runs once, one debounce window after init;
\* before it runs the one timer of init is pending, after it none is, whatever
\* the host adds to the document.
C22_SinglePass ==
  (pc = "running" /\ ~isLive) =>
    /\ ~observing
    /\ \/ /\ events = <<[op |-> "call", at |-> 0]>>
          /\ timers = {[id |-> 1, due |-> Wait]}
          /\ now <= Wait
       \/ /\ events = <<[op |-> "call", at |-> 0], [op |-> "scan", at |-> Wait]>>
          /\ timers = {}

\* a transcript or conversation whose pass has run and returned, and where
\* the host added a die with all dots afterwards: it stays as it is
C22_Witness ==
  /\ pc = "running" /\ ~isLive
  /\ events = <<[op |-> "call", at |-> 0], [op |-> "scan", at |-> Wait]>>
  /\ errors = <<>>
  /\ now > Wait
  /\ timers = {}
  /\ \E i, j \in DOMAIN doc :
       /\ doc[i].parent = getChatElement /\ doc[i].fudgeDie
       /\ doc[j].parent = getChatElement /\ ~doc[j].fudgeDie
       /\ doc[j].dots = Bullets(MaxPips)
====
